---- MODULE Spec2Model ----
(***************************************************************************)
(* A model of the cache and rate-limit layer of the scooby service:        *)
(* rate_limiter.py (sliding-window limiter over a Redis sorted set),       *)
(* cache_manager.py (content-addressed analysis cache) and the analyze     *)
(* endpoint of main.py that uses both.  Redis is modelled as one keyspace  *)
(* with per-key expiry; time is the integer second read by time.time().    *)
(* log_generator.py (a background thread that hands the logs of a file to  *)
(* a callback) is modelled next to them, with its own specifications.      *)
(***************************************************************************)
EXTENDS Integers, Sequences, FiniteSets, TLC

VARIABLES now, settings, redis, rl, calls, cl, lastStore, dg, resp, proc, req, pusher

vars == <<now, settings, redis, rl, calls, cl, lastStore, dg, resp, proc, req, pusher>>

(* ------------------------------ bounds -------------------------------- *)
MaxTime == 3
MaxCalls == 4
MaxQuota == 2
MaxWindow == 2
MaxTTL == 2

(* ------------------------------ values -------------------------------- *)
NoneVal == "None"
\* None where the code expects an int (an omitted argument)
NoArg == -1
NoExpiry == -1
Identifiers == {"x", "y"}

Digit(d) == CASE d = 0 -> "0" [] d = 1 -> "1" [] d = 2 -> "2" [] d = 3 -> "3" [] d = 4 -> "4" [] d = 5 -> "5" [] d = 6 -> "6" [] d = 7 -> "7" [] d = 8 -> "8" [] OTHER -> "9"

RECURSIVE IntToStr(_)
\* str(n) of a non-negative int: its decimal digits
IntToStr(n) == IF n < 10 THEN Digit(n) ELSE IntToStr(n \div 10) \o Digit(n % 10)

(* ------------------------------ the store ----------------------------- *)
\* Redis: a map from the keys that exist to what they hold, a string or a
\* sorted set (member -> score), each with an optional expiry.
\* data: <<>> or <<the JSON text>> of a string key
NoKey == [kind |-> "none", members |-> {}, data |-> <<>>, expireAt |-> NoExpiry]

Entry(r, key) == IF key \in DOMAIN r THEN r[key] ELSE NoKey

Put(r, key, e) == [k \in DOMAIN r \cup {key} |-> IF k = key THEN e ELSE r[k]]

Del(r, key) == [k \in DOMAIN r \ {key} |-> r[k]]

EmptyStore == [k \in {} |-> NoKey]

Expired(e, t) == e.expireAt # NoExpiry /\ t >= e.expireAt

\* Redis never shows a key whose expiry has passed
Purge(r, t) == [k \in {j \in DOMAIN r : ~Expired(r[j], t)} |-> r[k]]

\* one key for every caller
RateKey_shared(identifier) == "rate_limit:"

RateKey(identifier) == "rate_limit:" \o identifier

\* ZREMRANGEBYSCORE with the upper end of the range left out
zremrangebyscore_exclusive(r, key, lo, hi) ==
    LET kept == {m \in Entry(r, key).members : ~(lo <= m.score /\ m.score < hi)}
    IN  IF Entry(r, key).kind # "zset" THEN r
        ELSE IF kept = {} THEN Del(r, key)
        ELSE Put(r, key, [r[key] EXCEPT !.members = kept])

\* ZREMRANGEBYSCORE key lo hi: drop the members with lo <= score <= hi; a
\* sorted set left empty is deleted with its expiry
zremrangebyscore(r, key, lo, hi) ==
    LET kept == {m \in Entry(r, key).members : ~(lo <= m.score /\ m.score <= hi)}
    IN  IF Entry(r, key).kind # "zset" THEN r
        ELSE IF kept = {} THEN Del(r, key)
        ELSE Put(r, key, [r[key] EXCEPT !.members = kept])

\* ZCARD key
zcard(r, key) == Cardinality(Entry(r, key).members)

\* ZADD key {member: score}: a member already present only has its score set
zadd(r, key, member, score) ==
    LET old == Entry(r, key)
        others == {m \in old.members : m.member # member}
    IN  Put(r, key, [kind |-> "zset", members |-> others \cup {[member |-> member, score |-> score]}, data |-> <<>>, expireAt |-> old.expireAt])

\* EXPIRE that sets the expiry a second early
expire_short(r, key, seconds, t) ==
    IF key \notin DOMAIN r THEN r
    ELSE IF seconds <= 1 THEN Del(r, key)
    ELSE Put(r, key, [r[key] EXCEPT !.expireAt = t + seconds - 1])

\* EXPIRE key seconds
expire(r, key, seconds, t) ==
    IF key \notin DOMAIN r THEN r
    ELSE IF seconds <= 0 THEN Del(r, key)
    ELSE Put(r, key, [r[key] EXCEPT !.expireAt = t + seconds])

\* GET key: <<>> when the key holds no string
get(r, key) == IF Entry(r, key).kind = "string" THEN Entry(r, key).data ELSE <<>>

\* SETEX key seconds value
setex(r, key, seconds, value, t) ==
    Put(r, key, [kind |-> "string", members |-> {}, data |-> <<value>>, expireAt |-> t + seconds])

(* ------------------------------ content digests ----------------------- *)
\* Structured content as json.dumps sees it: a str, an int, a list, or a dict
\* whose items are kept in insertion order.
JStr(x) == [t |-> "str", s |-> x, items |-> <<>>]

JInt(n) == [t |-> "int", s |-> IntToStr(n), items |-> <<>>]

JList(vs) == [t |-> "list", s |-> "", items |-> [i \in DOMAIN vs |-> [k |-> "", v |-> vs[i]]]]

JDict(items) == [t |-> "dict", s |-> "", items |-> items]

Item(k, v) == [k |-> k, v |-> v]

\* the order of the mapping keys in use under Python's string comparison
KeyRank(k) == CASE k = "code" -> 1 [] k = "level" -> 2 [] k = "metadata" -> 3 [] OTHER -> 4

\* sorted(dict.items()): the items by ascending key (keys are distinct)
SortItems(items) ==
    [i \in DOMAIN items |-> CHOOSE it \in {items[j] : j \in DOMAIN items} : Cardinality({j \in DOMAIN items : KeyRank(items[j].k) < KeyRank(it.k)}) = i - 1]

RECURSIVE json_dumps(_, _), JoinFrom(_, _, _, _)
\* the elements i.. of a list or dict, rendered and joined with ", "
JoinFrom(items, i, isdict, sort_keys) ==
    IF i > Len(items) THEN ""
    ELSE (IF i > 1 THEN ", " ELSE "")
         \o (IF isdict THEN "\"" \o items[i].k \o "\": " ELSE "")
         \o json_dumps(items[i].v, sort_keys)
         \o JoinFrom(items, i + 1, isdict, sort_keys)

\* json.dumps(content, sort_keys=..., default=str)
json_dumps(v, sort_keys) ==
    CASE v.t = "str" -> "\"" \o v.s \o "\""
      [] v.t = "int" -> v.s
      [] v.t = "list" -> "[" \o JoinFrom(v.items, 1, FALSE, sort_keys) \o "]"
      [] OTHER -> "{" \o JoinFrom(IF sort_keys THEN SortItems(v.items) ELSE v.items, 1, TRUE, sort_keys) \o "}"

\* hashlib.md5(s.encode()).hexdigest(), taken as injective on s
md5hex(s) == "md5<" \o s \o ">"

\* the digest of the serialization in insertion order
generate_content_hash_unsorted(content) == md5hex(json_dumps(content, FALSE))

\* CacheManager.generate_content_hash
generate_content_hash(content) == md5hex(json_dumps(content, TRUE))

\* the contents digested: log_data lists of one entry with a level and a
\* metadata field (a str or a nested dict), in every insertion order, and the
\* empty documentation string
MetaDicts ==
    {JDict(<<Item("code", JInt(c)), Item("trace", JStr("t"))>>) : c \in {404, 500}}
        \cup {JDict(<<Item("trace", JStr("t")), Item("code", JInt(c))>>) : c \in {404, 500}}

MetaValues == MetaDicts \cup {JStr("none")}

LogEntries ==
    {JDict(<<Item("level", JStr(l)), Item("metadata", m)>>) : l \in {"ERROR", "INFO"}, m \in MetaValues}
        \cup {JDict(<<Item("metadata", m), Item("level", JStr(l))>>) : l \in {"ERROR", "INFO"}, m \in MetaValues}

Contents == {JList(<<e>>) : e \in LogEntries} \cup {JStr("")}

NoDigest == [done |-> FALSE, c1 |-> JStr(""), c2 |-> JStr(""), h1 |-> "", h2 |-> ""]

(* ------------------------------ cache keys ---------------------------- *)
\* a key that also takes in the clock reading of the request
generate_cache_key_timed(app_id, log_hash, doc_hash) ==
    "scooby:analysis:" \o md5hex(app_id \o ":" \o log_hash \o ":" \o doc_hash \o ":" \o IntToStr(now))

\* CacheManager._generate_cache_key
generate_cache_key(app_id, log_hash, doc_hash) ==
    LET combined == app_id \o ":" \o log_hash \o ":" \o doc_hash
    IN  "scooby:analysis:" \o md5hex(combined)

(* ------------------------------ rate limiter -------------------------- *)
\* Which store operation of a call raises: 0 none, 1 zremrangebyscore,
\* 2 zcard, 3 zadd, 4 expire.
FailPoints == 0..4

\* `x or default` of Python: None and 0 are falsy
OrDefault(x, default) == IF x = NoArg \/ x = 0 THEN default ELSE x

\* the try block of is_allowed with the rejected attempt recorded as a marker
is_allowed_try_recording(r, identifier, max_requests, window_seconds, current_time, failAt) ==
    LET key == RateKey(identifier)
        window_start == current_time - window_seconds
        r1 == zremrangebyscore(r, key, 0, window_start)
        current_count == zcard(r1, key)
        r2 == zadd(r1, key, IntToStr(current_time), current_time)
        r3 == expire(r2, key, window_seconds, current_time)
    IN  IF failAt = 1 THEN [exc |-> TRUE, ret |-> FALSE, redis |-> r]
        ELSE IF failAt = 2 THEN [exc |-> TRUE, ret |-> FALSE, redis |-> r1]
        ELSE IF current_count >= max_requests THEN [exc |-> FALSE, ret |-> FALSE, redis |-> r3]
        ELSE IF failAt = 3 THEN [exc |-> TRUE, ret |-> FALSE, redis |-> r1]
        ELSE IF failAt = 4 THEN [exc |-> TRUE, ret |-> FALSE, redis |-> r2]
        ELSE [exc |-> FALSE, ret |-> TRUE, redis |-> r3]

\* the try block of is_allowed with the expiry refreshed on rejection too
is_allowed_try_refreshing(r, identifier, max_requests, window_seconds, current_time, failAt) ==
    LET key == RateKey(identifier)
        window_start == current_time - window_seconds
        r1 == zremrangebyscore(r, key, 0, window_start)
        current_count == zcard(r1, key)
        r2 == zadd(r1, key, IntToStr(current_time), current_time)
        r3 == expire(r2, key, window_seconds, current_time)
    IN  IF failAt = 1 THEN [exc |-> TRUE, ret |-> FALSE, redis |-> r]
        ELSE IF failAt = 2 THEN [exc |-> TRUE, ret |-> FALSE, redis |-> r1]
        ELSE IF current_count >= max_requests THEN [exc |-> FALSE, ret |-> FALSE, redis |-> expire(r1, key, window_seconds, current_time)]
        ELSE IF failAt = 3 THEN [exc |-> TRUE, ret |-> FALSE, redis |-> r1]
        ELSE IF failAt = 4 THEN [exc |-> TRUE, ret |-> FALSE, redis |-> r2]
        ELSE [exc |-> FALSE, ret |-> TRUE, redis |-> r3]

\* the try block of is_allowed; exc = an exception left the block
is_allowed_try(r, identifier, max_requests, window_seconds, current_time, failAt) ==
    LET key == RateKey(identifier)
        window_start == current_time - window_seconds
        r1 == zremrangebyscore(r, key, 0, window_start)
        current_count == zcard(r1, key)
        r2 == zadd(r1, key, IntToStr(current_time), current_time)
        r3 == expire(r2, key, window_seconds, current_time)
    IN  IF failAt = 1 THEN [exc |-> TRUE, ret |-> FALSE, redis |-> r]
        ELSE IF failAt = 2 THEN [exc |-> TRUE, ret |-> FALSE, redis |-> r1]
        ELSE IF current_count >= max_requests THEN [exc |-> FALSE, ret |-> FALSE, redis |-> r1]
        ELSE IF failAt = 3 THEN [exc |-> TRUE, ret |-> FALSE, redis |-> r1]
        ELSE IF failAt = 4 THEN [exc |-> TRUE, ret |-> FALSE, redis |-> r2]
        ELSE [exc |-> FALSE, ret |-> TRUE, redis |-> r3]

\* is_allowed with an except clause that rejects
is_allowed_failclosed(r, identifier, max_requests_arg, window_seconds_arg, current_time, failAt) ==
    LET max_requests == OrDefault(max_requests_arg, settings.RATE_LIMIT_REQUESTS)
        window_seconds == OrDefault(window_seconds_arg, settings.RATE_LIMIT_WINDOW)
        t == is_allowed_try(r, identifier, max_requests, window_seconds, current_time, failAt)
    IN  [ret |-> IF t.exc THEN FALSE ELSE t.ret, raised |-> FALSE, failed |-> t.exc, redis |-> t.redis, max_requests |-> max_requests, window_seconds |-> window_seconds]

\* is_allowed: the defaults, the try block and the except clause (fail open)
is_allowed(r, identifier, max_requests_arg, window_seconds_arg, current_time, failAt) ==
    LET max_requests == OrDefault(max_requests_arg, settings.RATE_LIMIT_REQUESTS)
        window_seconds == OrDefault(window_seconds_arg, settings.RATE_LIMIT_WINDOW)
        t == is_allowed_try(r, identifier, max_requests, window_seconds, current_time, failAt)
    IN  [ret |-> IF t.exc THEN TRUE ELSE t.ret, raised |-> FALSE, failed |-> t.exc, redis |-> t.redis, max_requests |-> max_requests, window_seconds |-> window_seconds]

\* max(a, b) of Python
max(a, b) == IF a >= b THEN a ELSE b

\* Which store operation of get_remaining_requests raises: 0 none,
\* 1 zremrangebyscore, 2 zcard.
RemainingFailPoints == 0..2

\* the try block of get_remaining_requests without the clamp at 0
get_remaining_requests_try_unclamped(r, identifier, current_time, failAt) ==
    LET key == RateKey(identifier)
        window_start == current_time - settings.RATE_LIMIT_WINDOW
        r1 == zremrangebyscore(r, key, 0, window_start)
    IN  IF failAt = 1 THEN [exc |-> TRUE, ret |-> 0, redis |-> r]
        ELSE IF failAt = 2 THEN [exc |-> TRUE, ret |-> 0, redis |-> r1]
        ELSE [exc |-> FALSE, ret |-> settings.RATE_LIMIT_REQUESTS - zcard(r1, key), redis |-> r1]

\* the try block of get_remaining_requests
get_remaining_requests_try(r, identifier, current_time, failAt) ==
    LET key == RateKey(identifier)
        window_seconds == settings.RATE_LIMIT_WINDOW
        window_start == current_time - window_seconds
        r1 == zremrangebyscore(r, key, 0, window_start)
        current_count == zcard(r1, key)
    IN  IF failAt = 1 THEN [exc |-> TRUE, ret |-> 0, redis |-> r]
        ELSE IF failAt = 2 THEN [exc |-> TRUE, ret |-> 0, redis |-> r1]
        ELSE [exc |-> FALSE, ret |-> max(0, settings.RATE_LIMIT_REQUESTS - current_count), redis |-> r1]

\* a get_remaining_requests whose except clause answers 0
get_remaining_requests_failclosed(r, identifier, current_time, failAt) ==
    LET t == get_remaining_requests_try(r, identifier, current_time, failAt)
    IN  [ret |-> IF t.exc THEN 0 ELSE t.ret, raised |-> FALSE, failed |-> t.exc, redis |-> t.redis]

\* get_remaining_requests: the try block and the except clause, which answers
\* the whole quota
get_remaining_requests(r, identifier, current_time, failAt) ==
    LET t == get_remaining_requests_try(r, identifier, current_time, failAt)
    IN  [ret |-> IF t.exc THEN settings.RATE_LIMIT_REQUESTS ELSE t.ret, raised |-> FALSE, failed |-> t.exc, redis |-> t.redis]

(* ------------------------------ analyses ------------------------------ *)
\* A datetime: second t, microsecond us, UTC offset tz ("" when naive).
\* isdt = FALSE stands for a value that is no datetime.
Datetime(t, us, tz) == [isdt |-> TRUE, t |-> t, us |-> us, tz |-> tz]

NotADatetime == [isdt |-> FALSE, t |-> 0, us |-> 0, tz |-> ""]

NoFrac == -1

\* the text of a datetime: date and time, their separator, the fraction (left
\* out when the microsecond is 0) and the offset
DateText(dt, sep) == [t |-> dt.t, sep |-> sep, frac |-> IF dt.us = 0 THEN NoFrac ELSE dt.us, offset |-> dt.tz]

\* datetime.isoformat(timespec="seconds"): the fraction is dropped
isoformat_seconds(dt) == [t |-> dt.t, sep |-> "T", frac |-> NoFrac, offset |-> dt.tz]

\* datetime.isoformat()
isoformat(dt) == DateText(dt, "T")

\* str(datetime), what json.dumps(default=str) writes for a datetime
str_datetime(dt) == DateText(dt, " ")

\* pydantic's reading of a datetime field from a string
parse_datetime(text) == [ok |-> text.sep \in {"T", " "}, value |-> Datetime(text.t, IF text.frac = NoFrac THEN 0 ELSE text.frac, text.offset)]

\* models.SimilarIncident and models.AIAnalysis
SimilarIncident(id, score, resolution, mttr, date) == [id |-> id, similarity_score |-> score, resolution |-> resolution, mttr |-> mttr, resolution_date |-> date]

AIAnalysis(incident_id, confidence, severity, root_cause, recommendations, impact, escalation, similar, reasoning, created_at) ==
    [incident_id |-> incident_id, confidence |-> confidence, severity_assessment |-> severity, root_cause |-> root_cause, recommendations |-> recommendations, business_impact |-> impact, escalation_path |-> escalation, similar_incidents |-> similar, reasoning_chain |-> reasoning, created_at |-> created_at]

\* Field(ge=0, le=100) and the datetime fields, as the constructor validates them
Valid(a) ==
    /\ 0 <= a.confidence /\ a.confidence <= 100
    /\ a.created_at.isdt
    /\ \A i \in DOMAIN a.similar_incidents : a.similar_incidents[i].resolution_date.isdt

\* model_dump(), created_at.isoformat(), json.dumps(default=str): the JSON text
dumps_analysis(a) ==
    [a EXCEPT !.created_at = isoformat(a.created_at),
              !.similar_incidents = [i \in DOMAIN a.similar_incidents |-> [a.similar_incidents[i] EXCEPT !.resolution_date = str_datetime(@)]]]

\* json.loads and AIAnalysis(**analysis_dict): ok = FALSE when validation raises
loads_analysis(text) ==
    LET created == parse_datetime(text.created_at)
        dates == [i \in DOMAIN text.similar_incidents |-> parse_datetime(text.similar_incidents[i].resolution_date)]
        a == [text EXCEPT !.created_at = created.value,
                          !.similar_incidents = [i \in DOMAIN text.similar_incidents |-> [text.similar_incidents[i] EXCEPT !.resolution_date = dates[i].value]]]
    IN  [ok |-> created.ok /\ (\A i \in DOMAIN dates : dates[i].ok) /\ 0 <= text.confidence /\ text.confidence <= 100, value |-> a]

(* ------------------------------ cache manager ------------------------- *)
\* the try block of get_analysis_cache; fail = the store read raises
get_analysis_cache_try(r, cache_key, fail) ==
    LET cached_data == get(r, cache_key)
        loaded == loads_analysis(cached_data[1])
    IN  IF fail THEN [exc |-> TRUE, ret |-> <<>>]
        ELSE IF cached_data = <<>> THEN [exc |-> FALSE, ret |-> <<>>]
        ELSE IF ~loaded.ok THEN [exc |-> TRUE, ret |-> <<>>]
        ELSE [exc |-> FALSE, ret |-> <<loaded.value>>]

\* get_analysis_cache with the exception let through
get_analysis_cache_raising(r, app_id, log_hash, doc_hash, fail) ==
    LET cache_key == generate_cache_key(app_id, log_hash, doc_hash)
        t == get_analysis_cache_try(r, cache_key, fail)
    IN  [ret |-> t.ret, raised |-> t.exc, failed |-> t.exc, key |-> cache_key]

\* get_analysis_cache: <<>> is None, <<a>> an analysis
get_analysis_cache(r, app_id, log_hash, doc_hash, fail) ==
    LET cache_key == generate_cache_key(app_id, log_hash, doc_hash)
        t == get_analysis_cache_try(r, cache_key, fail)
    IN  [ret |-> IF t.exc THEN <<>> ELSE t.ret, raised |-> FALSE, failed |-> t.exc, key |-> cache_key]

\* the try block of set_analysis_cache with an expiry one second too long
set_analysis_cache_try_longer(r, cache_key, analysis, t, fail) ==
    IF ~analysis.created_at.isdt THEN [exc |-> TRUE, redis |-> r]
    ELSE IF fail THEN [exc |-> TRUE, redis |-> r]
    ELSE [exc |-> FALSE, redis |-> setex(r, cache_key, settings.CACHE_TTL + 1, dumps_analysis(analysis), t)]

\* the try block of set_analysis_cache; fail = the store write raises.
\* created_at.isoformat() raises when created_at is no datetime.
set_analysis_cache_try(r, cache_key, analysis, t, fail) ==
    IF ~analysis.created_at.isdt THEN [exc |-> TRUE, redis |-> r]
    ELSE IF fail THEN [exc |-> TRUE, redis |-> r]
    ELSE [exc |-> FALSE, redis |-> setex(r, cache_key, settings.CACHE_TTL, dumps_analysis(analysis), t)]

\* set_analysis_cache with the exception let through
set_analysis_cache_raising(r, app_id, log_hash, doc_hash, analysis, t, fail) ==
    LET cache_key == generate_cache_key(app_id, log_hash, doc_hash)
        w == set_analysis_cache_try(r, cache_key, analysis, t, fail)
    IN  [raised |-> w.exc, failed |-> w.exc, redis |-> w.redis, key |-> cache_key]

\* set_analysis_cache
set_analysis_cache(r, app_id, log_hash, doc_hash, analysis, t, fail) ==
    LET cache_key == generate_cache_key(app_id, log_hash, doc_hash)
        w == set_analysis_cache_try(r, cache_key, analysis, t, fail)
    IN  [raised |-> FALSE, failed |-> w.exc, redis |-> w.redis, key |-> cache_key]

(* ------------------------------ analysis provider --------------------- *)
\* datetime.utcnow(): the current second, some microsecond, no offset
Micros == {5}

utcnow(t, us) == Datetime(t, us, "")

\* GeminiClient._find_similar_incidents
find_similar_incidents(t, us) == <<SimilarIncident("INC-2024-156", 85, "Increased connection pool size", "15min", utcnow(t, us))>>

\* GeminiClient._create_fallback_analysis
create_fallback_analysis(incident_id, t, us) ==
    AIAnalysis(incident_id, 30, "UNKNOWN", "Analysis failed - requires manual investigation", <<"Escalate to on-call engineer", "Review logs manually">>, "Impact assessment pending manual review", "Immediate escalation to senior engineer", <<>>, <<"AI analysis unavailable", "Fallback to manual process">>, utcnow(t, us))

\* GeminiClient._create_fallback_analysis_data, built into an AIAnalysis
create_fallback_analysis_data(incident_id, t, us) ==
    AIAnalysis(incident_id, 30, "UNKNOWN", "Analysis parsing failed - requires manual investigation", <<"Escalate to on-call engineer", "Review logs manually">>, "Impact assessment pending manual review", "Immediate escalation to senior engineer", <<>>, <<"AI response parsing failed", "Fallback to manual process">>, utcnow(t, us))

\* what the provider does with a request: "ok" the response parses and
\* validates, "parse_error" its JSON does not parse, "api_error" the call or
\* the validation raises
ProviderOutcomes == {"ok", "parse_error", "api_error"}

\* GeminiClient.analyze_incident: always an AIAnalysis, never an exception
analyze_incident(incident_id, outcome, t, us) ==
    CASE outcome = "ok" -> AIAnalysis(incident_id, 85, "HIGH", "connection pool exhausted", <<"raise pool size">>, "checkout degraded", "page the SRE on call", find_similar_incidents(t, us), <<"timeouts in the logs">>, utcnow(t, us))
      [] outcome = "parse_error" -> create_fallback_analysis_data(incident_id, t, us)
      [] OTHER -> create_fallback_analysis(incident_id, t, us)

(* ------------------------------ analyze endpoint ---------------------- *)
\* verify_rate_limit that lets the request through whatever is_allowed says
verify_rate_limit_ignoring(r, request_id, t, failAt) ==
    LET a == is_allowed(r, request_id, NoArg, NoArg, t, failAt)
    IN  [ret |-> a.ret, rejected |-> FALSE, raised |-> a.raised, failed |-> a.failed, redis |-> a.redis, max_requests |-> a.max_requests, window_seconds |-> a.window_seconds]

\* verify_rate_limit: rejected = the dependency raised HTTPException(429), so
\* the endpoint body does not run; the other fields are those of is_allowed
verify_rate_limit(r, request_id, t, failAt) ==
    LET a == is_allowed(r, request_id, NoArg, NoArg, t, failAt)
    IN  [ret |-> a.ret, rejected |-> ~a.ret, raised |-> a.raised, failed |-> a.failed, redis |-> a.redis, max_requests |-> a.max_requests, window_seconds |-> a.window_seconds]

\* `request.app_id or "default"`: "" stands for None and for the empty string
OrDefaultStr(x, default) == IF x = "" THEN default ELSE x

\* A response and what the request did on the way: looked = the cache lookup
\* ran, provider_calls = calls of analyze_incident, set_called = the cache
\* store ran, get_fault, set_fault = the store failed under them, outcome = how
\* the provider call went
NoResponse == [status |-> 0, body |-> <<>>, triple |-> <<"", "", "">>, key |-> "", hit |-> FALSE, fresh |-> <<>>, get_fault |-> FALSE, set_fault |-> FALSE, written |-> FALSE, looked |-> FALSE, provider_calls |-> 0, set_called |-> FALSE, outcome |-> "none"]

\* analyze_incident_endpoint that writes the cached analysis back on a hit
analyze_incident_endpoint_refreshing(r, app_id_arg, log_data, documentation, t, fg, outcome, us, fs) ==
    LET log_hash == generate_content_hash(log_data)
        doc_hash == generate_content_hash(JStr(OrDefaultStr(documentation, "")))
        app_id == OrDefaultStr(app_id_arg, "default")
        tr == <<app_id, log_hash, doc_hash>>
        g == get_analysis_cache(r, app_id, log_hash, doc_hash, fg)
        incident_id == "REQ-" \o IntToStr(t)
        analysis == analyze_incident(incident_id, outcome, t, us)
        w == set_analysis_cache(r, app_id, log_hash, doc_hash, analysis, t, fs)
        again == set_analysis_cache(r, app_id, log_hash, doc_hash, g.ret[1], t, fs)
        base == [NoResponse EXCEPT !.triple = tr, !.key = g.key, !.looked = TRUE, !.get_fault = fg]
    IN  IF g.ret # <<>> THEN [resp |-> [base EXCEPT !.status = 200, !.body = g.ret, !.hit = TRUE], redis |-> again.redis, stored |-> IF again.failed THEN <<>> ELSE g.ret]
        ELSE [resp |-> [base EXCEPT !.status = 200, !.body = <<analysis>>, !.fresh = <<analysis>>, !.set_fault = fs, !.provider_calls = 1, !.set_called = TRUE, !.outcome = outcome, !.key = w.key, !.written = (w.redis # r)], redis |-> w.redis, stored |-> IF w.failed THEN <<>> ELSE <<analysis>>]

\* analyze_incident_endpoint after the gate let the request through.
\* fg, fs: the store read of the lookup, the store write of the store, raises.
analyze_incident_endpoint(r, app_id_arg, log_data, documentation, t, fg, outcome, us, fs) ==
    LET log_hash == generate_content_hash(log_data)
        doc_hash == generate_content_hash(JStr(OrDefaultStr(documentation, "")))
        app_id == OrDefaultStr(app_id_arg, "default")
        tr == <<app_id, log_hash, doc_hash>>
        g == get_analysis_cache(r, app_id, log_hash, doc_hash, fg)
        incident_id == "REQ-" \o IntToStr(t)
        analysis == analyze_incident(incident_id, outcome, t, us)
        w == set_analysis_cache(r, app_id, log_hash, doc_hash, analysis, t, fs)
        base == [NoResponse EXCEPT !.triple = tr, !.key = g.key, !.looked = TRUE, !.get_fault = fg]
    IN  IF g.raised THEN [resp |-> [base EXCEPT !.status = 500], redis |-> r, stored |-> <<>>]
        ELSE IF g.ret # <<>> THEN [resp |-> [base EXCEPT !.status = 200, !.body = g.ret, !.hit = TRUE], redis |-> r, stored |-> <<>>]
        ELSE IF w.raised THEN [resp |-> [base EXCEPT !.status = 500, !.fresh = <<analysis>>, !.set_fault = fs, !.provider_calls = 1, !.set_called = TRUE, !.outcome = outcome, !.key = w.key], redis |-> w.redis, stored |-> <<>>]
        ELSE [resp |-> [base EXCEPT !.status = 200, !.body = <<analysis>>, !.fresh = <<analysis>>, !.set_fault = fs, !.provider_calls = 1, !.set_called = TRUE, !.outcome = outcome, !.key = w.key, !.written = (w.redis # r)], redis |-> w.redis, stored |-> IF w.failed THEN <<>> ELSE <<analysis>>]

NoCall == [op |-> "none", identifier |-> NoneVal, max_requests |-> 0, window_seconds |-> 0, failed |-> FALSE, ret |-> FALSE, remaining |-> 0, raised |-> FALSE]

\* the (tenant, log digest, doc digest) triples the cache is called with
Triples == {<<"acme", "L1", "D1">>, <<"acme:L1", "L1", "D1">>, <<"acme", "L1:L1", "D1">>}

\* the analyses the cache is given: one with a similar incident and a naive
\* timestamp, one without and with a whole-second UTC timestamp, one whose
\* confidence was set out of range after construction, one whose created_at
\* was set to something that is no datetime
SampleSimilar == SimilarIncident("INC-2024-156", 85, "Increased connection pool size", "15min", Datetime(0, 0, ""))
AnalysisA == AIAnalysis("INC-1", 85, "HIGH", "pool exhausted", <<"restart">>, "checkout down", "page SRE", <<SampleSimilar>>, <<"logs show timeouts">>, Datetime(0, 5, ""))
AnalysisB == AIAnalysis("INC-2", 30, "UNKNOWN", "unknown", <<>>, "pending", "escalate", <<>>, <<>>, Datetime(1, 0, "+00:00"))
AnalysisOutOfRange == [AnalysisB EXCEPT !.confidence = 150]
AnalysisNoDate == [AnalysisA EXCEPT !.created_at = NotADatetime]
SampleAnalyses == {AnalysisA, AnalysisB, AnalysisOutOfRange, AnalysisNoDate}

NoCacheCall == [op |-> "none", triple |-> <<"", "", "">>, key |-> "", fault |-> FALSE, failed |-> FALSE, raised |-> FALSE, ret |-> <<>>, arg |-> <<>>, changed |-> FALSE]

(* ------------------------------ log pusher ---------------------------- *)
\* the number of pushers started in one run
MaxPushers == 2

\* a log of the JSON file: its message stands for the fields the pusher leaves
\* alone, its timestamp is the one written in the file (before the clock's 0)
FileLog(message) == [message |-> message, timestamp |-> NoArg]

\* what open() and json.load() can give: no file, malformed JSON, an empty
\* list, a list of logs
Files == {[error |-> "FileNotFoundError", logs |-> <<>>],
          [error |-> "JSONDecodeError", logs |-> <<>>],
          [error |-> "", logs |-> <<>>],
          [error |-> "", logs |-> <<FileLog("a"), FileLog("b")>>]}

\* the callback returns or raises
CallbackOutcomes == {"returns", "raises"}

\* no status() or logs_remaining() call has been made
NoStatus == [pc |-> "idle", op |-> "none", p |-> 0, total_logs |-> 0, logs_pushed |-> 0, logs_remaining |-> 0, running |-> FALSE, progress_percent |-> 0, done |-> FALSE]

\* the module after import: _current_pusher is None (0), no pusher state
\* exists, no control method was called.  state[p] is the state dict of the
\* p-th pusher with the position of its thread in push_loop (pc), the logs its
\* callback was handed (delivered, history) and the number of them handed over
\* while running was already False (late, history); ret is the last return
\* value of push_logs_from_json_simple (0 for None)
NoPusher == [current_pusher |-> 0, state |-> <<>>, st |-> NoStatus, ret |-> 0]

\* the state dict of a new pusher, its thread about to test the loop condition
NewState(logs) == [logs |-> logs, current_index |-> 0, running |-> TRUE, pc |-> "while", delivered |-> <<>>, late |-> 0]

\* PusherControl.stop() on the p-th state dict
stop(state, p) == [state EXCEPT ![p].running = FALSE]

\* round((current_index / len(logs)) * 100, 1), in tenths of a percent
progress_percent(current_index, total) == (2000 * current_index + total) \div (2 * total)

\* the workers that may run limiter calls at the same time, and a worker
\* between calls.  A worker in a call holds the call's locals: pc is the store
\* operation it issues next; counted, the timestamps of the markers its zcard
\* counted; done, ret, remaining, the outcome of its last call.
Procs == {"p1", "p2"}
IdleProc == [pc |-> "idle", op |-> "none", max_requests |-> 0, window_seconds |-> 0, current_time |-> 0, window_start |-> 0, count |-> 0, counted |-> {}, done |-> FALSE, ret |-> FALSE, remaining |-> 0]

\* a worker between requests to POST /analyze.  A worker in a request holds
\* the request's locals: pc is the step it takes next; status, hit, the
\* outcome of its last request.
IdleRequest == [pc |-> "idle", app_id |-> "", log_hash |-> "", doc_hash |-> "", incident_id |-> "", analysis |-> <<>>, status |-> 0, hit |-> FALSE]

TypeOK ==
    /\ now \in 0..MaxTime
    /\ \A i \in Identifiers : Len(calls[i]) <= MaxCalls
    /\ \A k \in DOMAIN redis : redis[k].kind \in {"zset", "string"}

InitCore ==
    /\ now = 0
    /\ settings \in [RATE_LIMIT_REQUESTS : 1..MaxQuota, RATE_LIMIT_WINDOW : 1..MaxWindow, CACHE_TTL : 1..MaxTTL]
    /\ redis = EmptyStore
    /\ rl = NoCall
    /\ calls = [i \in Identifiers |-> <<>>]
    /\ cl = NoCacheCall
    /\ lastStore = EmptyStore
    /\ resp = NoResponse
    /\ proc = [p \in Procs |-> IdleProc]
    /\ req = [p \in Procs |-> IdleRequest]
    /\ pusher = NoPusher

\* the state after construction; no digest has been computed
Init == InitCore /\ dg = NoDigest

\* the stores made less than CACHE_TTL seconds before t (history)
Recent(ls, t) == [k \in {j \in DOMAIN ls : t < ls[j].at + settings.CACHE_TTL} |-> ls[k]]

\* the clock advances one second; keys whose expiry has passed disappear
Tick ==
    /\ now < MaxTime
    /\ now' = now + 1
    /\ redis' = Purge(redis, now + 1)
    /\ lastStore' = Recent(lastStore, now + 1)
    /\ UNCHANGED <<settings, rl, calls, cl, dg, resp, proc, req, pusher>>

\* one call of RateLimiter.is_allowed: the store and the caller's view of it
IsAllowedCall(identifier, mr, ws, failAt) ==
    \E c \in {is_allowed(redis, identifier, mr, ws, now, failAt)} :
        /\ redis' = c.redis
        /\ rl' = [op |-> "is_allowed", identifier |-> identifier, max_requests |-> c.max_requests, window_seconds |-> c.window_seconds, failed |-> c.failed, ret |-> c.ret, remaining |-> 0, raised |-> c.raised]
        /\ UNCHANGED <<now, settings, cl, lastStore, dg, resp, proc, req, pusher>>

\* is_allowed with any arguments, any store operation of it possibly failing
IsAllowed(identifier, mr, ws, failAt) ==
    /\ IsAllowedCall(identifier, mr, ws, failAt)
    /\ UNCHANGED calls

\* the number of calls in the log, all identifiers together
CallsLogged == Cardinality(UNION {{<<i, k>> : k \in DOMAIN calls[i]} : i \in Identifiers})

\* is_allowed with the configured quota and window and a healthy store; the
\* history variable calls logs each call's clock reading and return value,
\* MaxCalls calls in all
QuotaCall(identifier, mr, ws) ==
    /\ CallsLogged < MaxCalls
    /\ IsAllowedCall(identifier, mr, ws, 0)
    /\ calls' = [calls EXCEPT ![identifier] = Append(@, [at |-> now, ret |-> rl'.ret])]

\* one call of RateLimiter.get_remaining_requests; rl.remaining is its result
GetRemaining(identifier, failAt) ==
    \E c \in {get_remaining_requests(redis, identifier, now, failAt)} :
        /\ redis' = c.redis
        /\ rl' = [op |-> "get_remaining_requests", identifier |-> identifier, max_requests |-> settings.RATE_LIMIT_REQUESTS, window_seconds |-> settings.RATE_LIMIT_WINDOW, failed |-> c.failed, ret |-> FALSE, remaining |-> c.ret, raised |-> c.raised]
        /\ UNCHANGED <<now, settings, calls, cl, lastStore, dg, resp, proc, req, pusher>>

\* the caller the fault-injection runs follow; the store holds every caller's key
FaultIds == {"x"}

LimiterNext ==
    \/ Tick
    \/ \E i \in FaultIds, mr \in {NoArg} \cup 0..MaxQuota, ws \in {NoArg} \cup 0..MaxWindow, f \in FailPoints : IsAllowed(i, mr, ws, f)
    \/ \E i \in FaultIds, f \in RemainingFailPoints : GetRemaining(i, f)

\* the cache plays no part in the limiter's runs: its setting is pinned
LimiterInit == Init /\ settings.CACHE_TTL = 1

\* the limiter under arbitrary arguments and store failures
SpecLimiter == LimiterInit /\ [][LimiterNext]_vars

QuotaNext ==
    \/ Tick
    \/ \E i \in Identifiers, mr \in {NoArg, settings.RATE_LIMIT_REQUESTS}, ws \in {NoArg, settings.RATE_LIMIT_WINDOW} : QuotaCall(i, mr, ws)
    \/ \E i \in Identifiers : GetRemaining(i, 0)

\* sequential calls with one fixed quota and window and no store error
SpecQuota == LimiterInit /\ [][QuotaNext]_vars

(* ------------------------------ concurrent limiter calls -------------- *)
\* the identifier the concurrent calls are made for
RaceId == "x"

\* a worker enters is_allowed(RaceId) or get_remaining_requests(RaceId): the
\* defaults are taken and the clock is read
Begin(p, op) ==
    /\ proc[p].pc = "idle"
    /\ proc' = [proc EXCEPT ![p] = [IdleProc EXCEPT !.pc = "prune", !.op = op,
                                      !.max_requests = OrDefault(NoArg, settings.RATE_LIMIT_REQUESTS),
                                      !.window_seconds = IF op = "is_allowed" THEN OrDefault(NoArg, settings.RATE_LIMIT_WINDOW) ELSE settings.RATE_LIMIT_WINDOW,
                                      !.current_time = now,
                                      !.window_start = now - settings.RATE_LIMIT_WINDOW]]
    /\ UNCHANGED <<now, settings, redis, rl, calls, cl, lastStore, dg, resp, req, pusher>>

\* the worker's zremrangebyscore reaches the store
Prune(p) ==
    /\ proc[p].pc = "prune"
    /\ redis' = zremrangebyscore(redis, RateKey(RaceId), 0, proc[p].window_start)
    /\ proc' = [proc EXCEPT ![p].pc = "count"]
    /\ UNCHANGED <<now, settings, rl, calls, cl, lastStore, dg, resp, req, pusher>>

\* the worker's zcard reaches the store; get_remaining_requests returns, and
\* so does is_allowed when the count has reached the quota
Count(p) ==
    /\ proc[p].pc = "count"
    /\ \E current_count \in {zcard(redis, RateKey(RaceId))} :
       \E seen \in {{m.score : m \in Entry(redis, RateKey(RaceId)).members}} :
        IF proc[p].op = "get_remaining_requests"
        THEN proc' = [proc EXCEPT ![p].pc = "idle", ![p].count = current_count, ![p].counted = seen, ![p].done = TRUE, ![p].remaining = max(0, settings.RATE_LIMIT_REQUESTS - current_count)]
        ELSE IF current_count >= proc[p].max_requests
        THEN proc' = [proc EXCEPT ![p].pc = "idle", ![p].count = current_count, ![p].counted = seen, ![p].done = TRUE, ![p].ret = FALSE]
        ELSE proc' = [proc EXCEPT ![p].pc = "add", ![p].count = current_count, ![p].counted = seen]
    /\ UNCHANGED <<now, settings, redis, rl, calls, cl, lastStore, dg, resp, req, pusher>>

\* a zadd that counts again and gives up when the set has filled meanwhile
Add_rechecked(p) ==
    /\ proc[p].pc = "add"
    /\ IF zcard(redis, RateKey(RaceId)) >= proc[p].max_requests
       THEN /\ proc' = [proc EXCEPT ![p].pc = "idle", ![p].done = TRUE, ![p].ret = FALSE]
            /\ UNCHANGED redis
       ELSE /\ redis' = zadd(redis, RateKey(RaceId), IntToStr(proc[p].current_time), proc[p].current_time)
            /\ proc' = [proc EXCEPT ![p].pc = "expire"]
    /\ UNCHANGED <<now, settings, rl, calls, cl, lastStore, dg, resp, req, pusher>>

\* the worker's zadd reaches the store
Add(p) ==
    /\ proc[p].pc = "add"
    /\ redis' = zadd(redis, RateKey(RaceId), IntToStr(proc[p].current_time), proc[p].current_time)
    /\ proc' = [proc EXCEPT ![p].pc = "expire"]
    /\ UNCHANGED <<now, settings, rl, calls, cl, lastStore, dg, resp, req, pusher>>

\* the worker's expire reaches the store and is_allowed returns True
ExpireKey(p) ==
    /\ proc[p].pc = "expire"
    /\ redis' = expire(redis, RateKey(RaceId), proc[p].window_seconds, now)
    /\ proc' = [proc EXCEPT ![p].pc = "idle", ![p].done = TRUE, ![p].ret = TRUE]
    /\ UNCHANGED <<now, settings, rl, calls, cl, lastStore, dg, resp, req, pusher>>

RaceNext ==
    \/ Tick
    \/ \E p \in Procs, op \in {"is_allowed", "get_remaining_requests"} : Begin(p, op)
    \/ \E p \in Procs : Prune(p)
    \/ \E p \in Procs : Count(p)
    \/ \E p \in Procs : Add(p)
    \/ \E p \in Procs : ExpireKey(p)

\* limiter calls of two workers on one identifier, interleaved store
\* operation by store operation, the store healthy
SpecRace == LimiterInit /\ [][RaceNext]_vars

\* a worker that has made no call yet enters is_allowed(RaceId)
BeginOnce(p) ==
    /\ ~proc[p].done
    /\ Begin(p, "is_allowed")

BatchNext ==
    \/ Tick
    \/ \E p \in Procs : BeginOnce(p)
    \/ \E p \in Procs : Prune(p)
    \/ \E p \in Procs : Count(p)
    \/ \E p \in Procs : Add(p)
    \/ \E p \in Procs : ExpireKey(p)

\* one is_allowed call per worker on an identifier without markers, the calls
\* interleaved store operation by store operation, the store healthy
SpecBatch == LimiterInit /\ [][BatchNext]_vars

(* ------------------------------ cache actions ------------------------- *)
\* one call of CacheManager.get_analysis_cache
GetAnalysis(tr, fail) ==
    \E g \in {get_analysis_cache(redis, tr[1], tr[2], tr[3], fail)} :
        /\ cl' = [op |-> "get", triple |-> tr, key |-> g.key, fault |-> fail, failed |-> g.failed, raised |-> g.raised, ret |-> g.ret, arg |-> <<>>, changed |-> FALSE]
        /\ UNCHANGED <<now, settings, redis, rl, calls, lastStore, dg, resp, proc, req, pusher>>

\* one call of CacheManager.set_analysis_cache; lastStore keeps, per key, the
\* most recent store that wrote, while less than CACHE_TTL seconds old: who
\* stored what, and when (history)
SetAnalysis(tr, analysis, fail) ==
    \E w \in {set_analysis_cache(redis, tr[1], tr[2], tr[3], analysis, now, fail)} :
        /\ redis' = w.redis
        /\ cl' = [op |-> "set", triple |-> tr, key |-> w.key, fault |-> fail, failed |-> w.failed, raised |-> w.raised, ret |-> <<>>, arg |-> <<analysis>>, changed |-> w.redis # redis]
        /\ lastStore' = IF w.failed THEN lastStore ELSE Put(lastStore, w.key, [by |-> tr, analysis |-> analysis, at |-> now])
        /\ UNCHANGED <<now, settings, rl, calls, dg, resp, proc, req, pusher>>

CacheNext ==
    \/ Tick
    \/ \E tr \in Triples, fail \in BOOLEAN : GetAnalysis(tr, fail)
    \/ \E tr \in Triples, a \in SampleAnalyses, fail \in BOOLEAN : SetAnalysis(tr, a, fail)

\* the limiter plays no part in the cache's runs: its settings are pinned
CacheInit == Init /\ settings.RATE_LIMIT_REQUESTS = 1 /\ settings.RATE_LIMIT_WINDOW = 1

\* the cache manager called directly, any store operation possibly failing
SpecCache == CacheInit /\ [][CacheNext]_vars

IsolationNext ==
    \/ Tick
    \/ \E i \in Identifiers, f \in FailPoints : IsAllowed(i, NoArg, NoArg, f)
    \/ \E i \in Identifiers, f \in RemainingFailPoints : GetRemaining(i, f)
    \/ SetAnalysis(<<"acme", "L1", "D1">>, AnalysisA, FALSE)

IsolationInit == LimiterInit /\ settings.RATE_LIMIT_WINDOW = 1

\* limiter calls of two callers on a store that also holds a cached
\* analysis, any store operation of the limiter possibly failing
SpecIsolation == IsolationInit /\ [][IsolationNext]_vars

(* ------------------------------ endpoint runs ------------------------- *)
\* the requests sent to POST /analyze: the default caller, no tenant given,
\* two log lists that differ only in the key order of their entry
RequestIds == {"anonymous"}
RequestApps == {""}
RequestLogs ==
    {JList(<<JDict(<<Item("level", JStr("ERROR")), Item("metadata", JDict(<<Item("code", JInt(500))>>))>>)>>),
     JList(<<JDict(<<Item("metadata", JDict(<<Item("code", JInt(500))>>)), Item("level", JStr("ERROR"))>>)>>)}
RequestDocs == {""}

\* one request to POST /analyze, from the gate to the response
Analyze(request_id, app_id_arg, log_data, documentation, f1, fg, outcome, us, fs) ==
    \E gate \in {verify_rate_limit(redis, request_id, now, f1)} :
        /\ rl' = [op |-> "is_allowed", identifier |-> request_id, max_requests |-> gate.max_requests, window_seconds |-> gate.window_seconds, failed |-> gate.failed, ret |-> gate.ret, remaining |-> 0, raised |-> gate.raised]
        /\ IF gate.rejected
           THEN /\ redis' = gate.redis
                /\ resp' = [NoResponse EXCEPT !.status = 429]
                /\ UNCHANGED lastStore
           ELSE \E e \in {analyze_incident_endpoint(gate.redis, app_id_arg, log_data, documentation, now, fg, outcome, us, fs)} :
                /\ redis' = e.redis
                /\ resp' = e.resp
                /\ lastStore' = IF e.stored = <<>> THEN lastStore ELSE Put(lastStore, e.resp.key, [by |-> e.resp.triple, analysis |-> e.stored[1], at |-> now])
        /\ UNCHANGED <<now, settings, calls, cl, dg, proc, req, pusher>>

\* a direct store of an analysis that cannot be serialized, the store healthy
StoreUnserializable(tr) == SetAnalysis(tr, AnalysisNoDate, FALSE)

AnalyzeNext ==
    \/ Tick
    \/ \E tr \in {<<"acme", "L1", "D1">>} : StoreUnserializable(tr)
    \/ \E id \in RequestIds, app \in RequestApps, logs \in RequestLogs, doc \in RequestDocs, f1 \in FailPoints, fg \in BOOLEAN, o \in ProviderOutcomes, us \in Micros, fs \in BOOLEAN : Analyze(id, app, logs, doc, f1, fg, o, us, fs)

\* one request a second passes the gate: the limiter's settings are pinned
AnalyzeInit == Init /\ settings.RATE_LIMIT_REQUESTS = 1 /\ settings.RATE_LIMIT_WINDOW = 1

\* the analyze endpoint, any store operation possibly failing, beside direct
\* stores that fail to serialize
SpecAnalyze == AnalyzeInit /\ [][AnalyzeNext]_vars

(* ------------------------------ concurrent analyze requests ----------- *)
\* the body every worker posts
FlowLogs == JList(<<JDict(<<Item("level", JStr("ERROR")), Item("metadata", JDict(<<Item("code", JInt(500))>>))>>)>>)

\* the key of the requests' triple
FlowKey == generate_cache_key("default", generate_content_hash(FlowLogs), generate_content_hash(JStr("")))

\* a worker receives a request: the gate runs, then the digests are taken
Enter(p) ==
    /\ req[p].pc = "idle"
    /\ \E gate \in {verify_rate_limit(redis, "anonymous", now, 0)} :
        /\ redis' = gate.redis
        /\ req' = [req EXCEPT ![p] = IF gate.rejected
                                      THEN [IdleRequest EXCEPT !.status = 429]
                                      ELSE [IdleRequest EXCEPT !.pc = "lookup", !.app_id = OrDefaultStr("", "default"),
                                                               !.log_hash = generate_content_hash(FlowLogs),
                                                               !.doc_hash = generate_content_hash(JStr(OrDefaultStr("", "")))]]
    /\ UNCHANGED <<now, settings, rl, calls, cl, lastStore, dg, resp, proc, pusher>>

\* the worker's get_analysis_cache: on a hit the request returns
Lookup(p) ==
    /\ req[p].pc = "lookup"
    /\ \E g \in {get_analysis_cache(redis, req[p].app_id, req[p].log_hash, req[p].doc_hash, FALSE)} :
        req' = [req EXCEPT ![p] = IF g.ret # <<>>
                                    THEN [@ EXCEPT !.pc = "idle", !.status = 200, !.hit = TRUE, !.analysis = g.ret]
                                    ELSE [@ EXCEPT !.pc = "analyze", !.incident_id = "REQ-" \o IntToStr(now)]]
    /\ UNCHANGED <<now, settings, redis, rl, calls, cl, lastStore, dg, resp, proc, pusher>>

\* the worker's provider call returns
Provide(p, outcome, us) ==
    /\ req[p].pc = "analyze"
    /\ req' = [req EXCEPT ![p].pc = "store", ![p].analysis = <<analyze_incident(req[p].incident_id, outcome, now, us)>>]
    /\ UNCHANGED <<now, settings, redis, rl, calls, cl, lastStore, dg, resp, proc, pusher>>

\* the worker's set_analysis_cache, and the request returns the analysis
Store(p) ==
    /\ req[p].pc = "store"
    /\ \E w \in {set_analysis_cache(redis, req[p].app_id, req[p].log_hash, req[p].doc_hash, req[p].analysis[1], now, FALSE)} :
        redis' = w.redis
    /\ req' = [req EXCEPT ![p].pc = "idle", ![p].status = 200]
    /\ UNCHANGED <<now, settings, rl, calls, cl, lastStore, dg, resp, proc, pusher>>

FlowNext ==
    \/ Tick
    \/ \E p \in Procs : Enter(p)
    \/ \E p \in Procs : Lookup(p)
    \/ \E p \in Procs, o \in ProviderOutcomes, us \in Micros : Provide(p, o, us)
    \/ \E p \in Procs : Store(p)

\* analyze requests of two workers for one triple, interleaved step by step,
\* the store healthy
SpecFlow == AnalyzeInit /\ [][FlowNext]_vars

(* ------------------------------ digest runs --------------------------- *)
\* generate_content_hash applied to two contents
HashContents ==
    /\ ~dg.done
    /\ dg' = [dg EXCEPT !.done = TRUE, !.h1 = generate_content_hash(dg.c1), !.h2 = generate_content_hash(dg.c2)]
    /\ UNCHANGED <<now, settings, redis, rl, calls, cl, lastStore, resp, proc, req, pusher>>

DigestNext == HashContents

DigestInit ==
    /\ InitCore
    /\ settings = [RATE_LIMIT_REQUESTS |-> 1, RATE_LIMIT_WINDOW |-> 1, CACHE_TTL |-> 1]
    /\ dg \in [done : {FALSE}, c1 : Contents, c2 : Contents, h1 : {""}, h2 : {""}]

\* the digest function on every pair of contents
SpecDigest == DigestInit /\ [][DigestNext]_vars

(* ------------------------------ log pusher runs ----------------------- *)
\* the pushers whose state dict exists
Pushers == 1..Len(pusher.state)

Others == <<now, settings, redis, rl, calls, cl, lastStore, dg, resp, proc, req>>

\* a push_logs_from_json_simple that leaves the previous pusher running
push_logs_from_json_simple_unstopped(file) ==
    /\ IF file.error # "" \/ file.logs = <<>>
       THEN pusher' = [pusher EXCEPT !.ret = 0]
       ELSE /\ Len(pusher.state) < MaxPushers
            /\ pusher' = [pusher EXCEPT !.state = Append(pusher.state, NewState(file.logs)),
                                        !.current_pusher = Len(pusher.state) + 1,
                                        !.ret = Len(pusher.state) + 1]
    /\ UNCHANGED Others

\* push_logs_from_json_simple(json_file_path): the running pusher is stopped,
\* the file is loaded (None is returned for a missing, malformed or empty
\* file), and a new state dict, thread and control are made
push_logs_from_json_simple(file) ==
    /\ \E stopped \in {IF pusher.current_pusher # 0 /\ pusher.state[pusher.current_pusher].running
                       THEN stop(pusher.state, pusher.current_pusher) ELSE pusher.state} :
        IF file.error # "" \/ file.logs = <<>>
        THEN pusher' = [pusher EXCEPT !.state = stopped, !.ret = 0]
        ELSE /\ Len(pusher.state) < MaxPushers
             /\ pusher' = [pusher EXCEPT !.state = Append(stopped, NewState(file.logs)),
                                         !.current_pusher = Len(pusher.state) + 1,
                                         !.ret = Len(pusher.state) + 1]
    /\ UNCHANGED Others

\* push_loop, the loop condition
While(p) ==
    /\ pusher.state[p].pc = "while"
    /\ pusher' = [pusher EXCEPT !.state[p].pc =
                    IF pusher.state[p].running /\ pusher.state[p].current_index < Len(pusher.state[p].logs)
                    THEN "callback" ELSE "ended"]
    /\ UNCHANGED Others

\* push_loop hands a copy of the current log, stamped with the clock, to the
\* callback; a callback that raises ends the thread
Callback(p, outcome) ==
    /\ pusher.state[p].pc = "callback"
    /\ \E current_log \in {[pusher.state[p].logs[pusher.state[p].current_index + 1] EXCEPT !.timestamp = now]} :
        pusher' = [pusher EXCEPT !.state[p].delivered = Append(pusher.state[p].delivered, current_log),
                                 !.state[p].late = pusher.state[p].late + (IF pusher.state[p].running THEN 0 ELSE 1),
                                 !.state[p].pc = IF outcome = "returns" THEN "advance" ELSE "ended"]
    /\ UNCHANGED Others

\* state['current_index'] += 1
Advance(p) ==
    /\ pusher.state[p].pc = "advance"
    /\ pusher' = [pusher EXCEPT !.state[p].current_index = pusher.state[p].current_index + 1,
                                !.state[p].pc = "done_check"]
    /\ UNCHANGED Others

\* after the last log running becomes False and the loop is left; before
\* that, a pusher still running sleeps for the interval
DoneCheck(p) ==
    /\ pusher.state[p].pc = "done_check"
    /\ IF pusher.state[p].current_index >= Len(pusher.state[p].logs)
       THEN pusher' = [pusher EXCEPT !.state[p].running = FALSE, !.state[p].pc = "ended"]
       ELSE pusher' = [pusher EXCEPT !.state[p].pc = IF pusher.state[p].running THEN "sleep" ELSE "while"]
    /\ UNCHANGED Others

\* time.sleep returns
Wake(p) ==
    /\ pusher.state[p].pc = "sleep"
    /\ pusher' = [pusher EXCEPT !.state[p].pc = "while"]
    /\ UNCHANGED Others

\* the holder of a control calls stop()
Stop(p) ==
    /\ pusher' = [pusher EXCEPT !.state = stop(pusher.state, p)]
    /\ UNCHANGED Others

\* stop_current_pusher()
stop_current_pusher ==
    /\ IF pusher.current_pusher # 0 /\ pusher.state[pusher.current_pusher].running
       THEN pusher' = [pusher EXCEPT !.state = stop(pusher.state, pusher.current_pusher), !.current_pusher = 0]
       ELSE UNCHANGED pusher
    /\ UNCHANGED Others

\* status() evaluates its dict entry by entry: total_logs and logs_pushed
StatusPushed(p) ==
    /\ pusher.st.pc = "idle"
    /\ pusher' = [pusher EXCEPT !.st = [NoStatus EXCEPT !.pc = "logs_remaining", !.op = "status", !.p = p,
                                          !.total_logs = Len(pusher.state[p].logs),
                                          !.logs_pushed = pusher.state[p].current_index]]
    /\ UNCHANGED Others

\* logs_remaining
StatusRemaining ==
    /\ pusher.st.pc = "logs_remaining"
    /\ pusher' = [pusher EXCEPT !.st.pc = "running",
                                !.st.logs_remaining = Len(pusher.state[pusher.st.p].logs) - pusher.state[pusher.st.p].current_index]
    /\ UNCHANGED Others

\* running
StatusRunning ==
    /\ pusher.st.pc = "running"
    /\ pusher' = [pusher EXCEPT !.st.pc = "progress_percent", !.st.running = pusher.state[pusher.st.p].running]
    /\ UNCHANGED Others

\* progress_percent, and the dict is returned
StatusProgress ==
    /\ pusher.st.pc = "progress_percent"
    /\ pusher' = [pusher EXCEPT !.st.pc = "idle", !.st.done = TRUE,
                                !.st.progress_percent = progress_percent(pusher.state[pusher.st.p].current_index, Len(pusher.state[pusher.st.p].logs))]
    /\ UNCHANGED Others

\* logs_remaining() of a control
LogsRemaining(p) ==
    /\ pusher.st.pc = "idle"
    /\ pusher' = [pusher EXCEPT !.st = [NoStatus EXCEPT !.op = "logs_remaining", !.p = p, !.done = TRUE,
                                          !.logs_remaining = Len(pusher.state[p].logs) - pusher.state[p].current_index]]
    /\ UNCHANGED Others

PusherNext ==
    \/ \E file \in Files : push_logs_from_json_simple(file)
    \/ \E p \in Pushers : While(p)
    \/ \E p \in Pushers, outcome \in CallbackOutcomes : Callback(p, outcome)
    \/ \E p \in Pushers : Advance(p)
    \/ \E p \in Pushers : DoneCheck(p)
    \/ \E p \in Pushers : Wake(p)
    \/ \E p \in Pushers : Stop(p)
    \/ stop_current_pusher

PusherInit == Init /\ settings = [RATE_LIMIT_REQUESTS |-> 1, RATE_LIMIT_WINDOW |-> 1, CACHE_TTL |-> 1]

\* the log pusher: calls of push_logs_from_json_simple, of stop() on the
\* controls it returned and of stop_current_pusher, interleaved with the steps
\* of the pusher threads
SpecPusher == PusherInit /\ [][PusherNext]_vars

StatusNext ==
    \/ \E file \in Files : push_logs_from_json_simple(file)
    \/ \E p \in Pushers : While(p)
    \/ \E p \in Pushers : Callback(p, "returns")
    \/ \E p \in Pushers : Advance(p)
    \/ \E p \in Pushers : DoneCheck(p)
    \/ \E p \in Pushers : Wake(p)
    \/ \E p \in Pushers : StatusPushed(p)
    \/ StatusRemaining
    \/ StatusRunning
    \/ StatusProgress
    \/ \E p \in Pushers : LogsRemaining(p)

\* the log pusher observed: status() and logs_remaining() of the controls,
\* called from the main thread while the pusher threads run; the callbacks
\* return and nobody calls stop() directly
SpecStatus == PusherInit /\ [][StatusNext]_vars

(* ------------------------------ log pusher claims --------------------- *)
\* the messages of a list of logs
Messages(logs) == [i \in 1..Len(logs) |-> logs[i].message]

\* C26 (safety part): every callback has been handed a prefix of its file's
\* logs, in file order and each log once, and a status() dict has
\* logs_pushed + logs_remaining = total_logs
PusherDelivery ==
    /\ \A p \in Pushers :
        /\ Len(pusher.state[p].delivered) <= Len(pusher.state[p].logs)
        /\ Messages(pusher.state[p].delivered) = SubSeq(Messages(pusher.state[p].logs), 1, Len(pusher.state[p].delivered))
    /\ (pusher.st.op = "status" /\ pusher.st.done) =>
        pusher.st.logs_pushed + pusher.st.logs_remaining = pusher.st.total_logs

\* C27: only the pusher made by the latest call is running, so a call made
\* while a pusher runs has stopped it; and a thread hands at most one log to
\* its callback once running is False
SingleActivePusher ==
    /\ \A p \in Pushers : pusher.state[p].running => p = pusher.current_pusher
    /\ Cardinality({p \in Pushers : pusher.state[p].running}) <= 1
    /\ \A p \in Pushers : pusher.state[p].late <= 1

\* a pusher stopped by the next call has handed over the log that was in
\* flight, and the next pusher is running and has handed over a log as well
WitnessSingleActivePusher ==
    \E p \in Pushers :
        /\ p < pusher.current_pusher
        /\ pusher.state[p].late = 1
        /\ pusher.state[p].pc = "ended"
        /\ pusher.state[p].current_index < Len(pusher.state[p].logs)
        /\ pusher.state[pusher.current_pusher].running
        /\ pusher.state[pusher.current_pusher].delivered # <<>>

(* ------------------------------ limiter claims ------------------------ *)
\* the calls of identifier i that returned True with clock reading in (t - w, t]
AdmittedIn(i, t, w) == {k \in DOMAIN calls[i] : calls[i][k].ret /\ t - w < calls[i][k].at /\ calls[i][k].at <= t}

\* C1: with one fixed quota N and window W and a healthy store, the calls that
\* returned True inside any trailing window (t - W, t] number at most N
QuotaBound ==
    \A i \in Identifiers, t \in 0..MaxTime :
        Cardinality(AdmittedIn(i, t, settings.RATE_LIMIT_WINDOW)) <= settings.RATE_LIMIT_REQUESTS

\* C2: from an empty marker set, of N+1 calls made within less than W seconds
\* the first N return True and the (N+1)-th returns False
FirstNThenReject ==
    \A i \in Identifiers, k \in 1..(settings.RATE_LIMIT_REQUESTS + 1) :
        (k \in DOMAIN calls[i] /\ calls[i][k].at - calls[i][1].at < settings.RATE_LIMIT_WINDOW)
            => (calls[i][k].ret <=> k <= settings.RATE_LIMIT_REQUESTS)

\* C3: a store failure inside is_allowed makes it return True and raise nothing
FailOpenLimiter == (rl.op = "is_allowed" /\ rl.failed) => (rl.ret = TRUE /\ ~rl.raised)

\* a call whose expire failed after the marker went in: the key has no expiry
WitnessFailOpenLimiter ==
    /\ rl.op = "is_allowed" /\ rl.failed /\ rl.ret = TRUE
    /\ Entry(redis, RateKey(rl.identifier)).kind = "zset"
    /\ Entry(redis, RateKey(rl.identifier)).expireAt = NoExpiry

\* C11: after a rejection, a call made more than W seconds after the last
\* admitted call returns True, however many rejected attempts came in between
WindowSlide ==
    \A i \in Identifiers : \A k \in DOMAIN calls[i] :
        (/\ \E j \in 1..(k - 1) : ~calls[i][j].ret
         /\ \A j \in 1..(k - 1) : calls[i][j].ret => calls[i][k].at - calls[i][j].at > settings.RATE_LIMIT_WINDOW)
            => calls[i][k].ret

\* an admission more than W after the last one, with a rejected attempt made
\* in a later second than that last admission
WitnessWindowSlide ==
    \E i \in Identifiers : \E k \in DOMAIN calls[i] :
        /\ calls[i][k].ret
        /\ \A j \in 1..(k - 1) : calls[i][j].ret => calls[i][k].at - calls[i][j].at > settings.RATE_LIMIT_WINDOW
        /\ \E j \in 1..(k - 1) : ~calls[i][j].ret /\ \A h \in 1..(k - 1) : calls[i][h].ret => calls[i][h].at < calls[i][j].at

\* C12: a call that returns False inserts no marker and leaves the expiry of
\* the key alone; all it does to the store is drop the identifier's markers
\* with timestamp <= now - window_seconds
RejectedFrame ==
    [][(now' = now /\ rl'.op = "is_allowed" /\ ~rl'.ret) =>
        LET key == RateKey(rl'.identifier)
            old == Entry(redis, key)
            new == Entry(redis', key)
        IN  /\ new.members = {m \in old.members : m.score > now - rl'.window_seconds}
            /\ new.kind = "zset" => new.expireAt = old.expireAt
            /\ \A k \in (DOMAIN redis \cup DOMAIN redis') \ {key} : Entry(redis', k) = Entry(redis, k)]_vars

\* a rejected call in a second without a marker, its key due to expire sooner
\* than a refresh would have set
WitnessRejectedFrame ==
    /\ rl.op = "is_allowed" /\ ~rl.ret
    /\ Entry(redis, RateKey(rl.identifier)).kind = "zset"
    /\ \A m \in Entry(redis, RateKey(rl.identifier)).members : m.score < now
    /\ Entry(redis, RateKey(rl.identifier)).expireAt # NoExpiry
    /\ Entry(redis, RateKey(rl.identifier)).expireAt < now + rl.window_seconds

\* C13: get_remaining_requests drops the markers with timestamp <= now - W,
\* answers max(0, quota - count) for the markers left, a value in 0..quota,
\* inserts no marker, leaves the expiry of the key alone and touches no other key
RemainingFrame ==
    [][(now' = now /\ rl'.op = "get_remaining_requests") =>
        LET key == RateKey(rl'.identifier)
            old == Entry(redis, key)
            new == Entry(redis', key)
            quota == settings.RATE_LIMIT_REQUESTS
            left == Cardinality(new.members)
        IN  /\ rl'.remaining \in 0..quota
            /\ ~rl'.failed => new.members = {m \in old.members : m.score > now - settings.RATE_LIMIT_WINDOW}
            /\ ~rl'.failed => rl'.remaining = (IF left >= quota THEN 0 ELSE quota - left)
            /\ new.members \subseteq old.members
            /\ new.kind = "zset" => new.expireAt = old.expireAt
            /\ \A k \in (DOMAIN redis \cup DOMAIN redis') \ {key} : Entry(redis', k) = Entry(redis, k)]_vars

\* a query that found more live markers than the configured quota
WitnessRemainingFrame ==
    /\ rl.op = "get_remaining_requests" /\ ~rl.failed /\ rl.remaining = 0
    /\ zcard(redis, RateKey(rl.identifier)) > settings.RATE_LIMIT_REQUESTS

\* C16: a query at time now counts a marker of time t exactly when
\* t > now - window_seconds; a marker of time now - window_seconds is removed
WindowBoundary ==
    [][(now' = now /\ rl'.op \in {"is_allowed", "get_remaining_requests"} /\ ~rl'.failed) =>
        LET key == RateKey(rl'.identifier)
            old == Entry(redis, key).members
            live == {m \in old : m.score > now - rl'.window_seconds}
        IN  /\ rl'.op = "is_allowed" => (rl'.ret <=> Cardinality(live) < rl'.max_requests)
            /\ rl'.op = "get_remaining_requests" => rl'.remaining = max(0, rl'.max_requests - Cardinality(live))
            /\ \A m \in old : m.score = now - rl'.window_seconds => m \notin Entry(redis', key).members]_vars

\* with a quota of one, a call admitted exactly window_seconds after the
\* admission before it
WitnessWindowBoundary ==
    /\ settings.RATE_LIMIT_REQUESTS = 1
    /\ \E i \in Identifiers : \E k \in DOMAIN calls[i] :
        /\ k > 1 /\ calls[i][k].ret /\ calls[i][k - 1].ret
        /\ calls[i][k].at = calls[i][k - 1].at + settings.RATE_LIMIT_WINDOW

\* C17: every marker a call's zcard counts has a timestamp greater than the
\* call's window_start, also when calls interleave
PruneThenCount ==
    \A p \in Procs : \A t \in proc[p].counted : t > proc[p].window_start

\* the clock reading of the last call of identifier i that returned True
LastAdmitted(i) ==
    LET admitted == {k \in DOMAIN calls[i] : calls[i][k].ret}
    IN  calls[i][CHOOSE k \in admitted : \A j \in admitted : j <= k].at

\* C18: each admission adds one marker, so the markers inside the trailing
\* window are as many as the calls admitted inside it
MarkerPerAdmission ==
    \A i \in Identifiers :
        Cardinality({m \in Entry(redis, RateKey(i)).members : m.score > now - settings.RATE_LIMIT_WINDOW})
            = Cardinality(AdmittedIn(i, now, settings.RATE_LIMIT_WINDOW))

UncheckedInsert ==
    [][\A p \in Procs :
        /\ (proc[p].pc = "count" /\ proc'[p].pc = "add") => zcard(redis, RateKey(RaceId)) < proc[p].max_requests
        /\ (proc[p].pc = "add" /\ proc'[p].pc # "add") =>
            /\ proc'[p].pc = "expire"
            /\ \E m \in Entry(redis', RateKey(RaceId)).members : m.score = proc[p].current_time
        /\ (proc[p].pc = "expire" /\ proc'[p].pc # "expire") => (proc'[p].done /\ proc'[p].ret)]_vars

\* with a quota of one, two calls made in the same second have both returned
\* True, each having counted no marker
WitnessUncheckedInsert ==
    /\ \A p \in Procs :
        /\ proc[p].op = "is_allowed" /\ proc[p].pc = "idle" /\ proc[p].done /\ proc[p].ret
        /\ proc[p].max_requests = 1 /\ proc[p].count = 0
        /\ proc[p].current_time = now

\* what is_allowed returns to worker p when the two workers' calls run one
\* after the other, first's before the other's, each with the clock reading
\* it had, on an identifier without markers
SequentialRet(p, first) ==
    LET second == CHOOSE q \in Procs : q # first
        a == is_allowed(EmptyStore, RaceId, NoArg, NoArg, proc[first].current_time, 0)
        b == is_allowed(Purge(a.redis, proc[second].current_time), RaceId, NoArg, NoArg, proc[second].current_time, 0)
    IN  IF p = first THEN a.ret ELSE b.ret

\* C21: of two interleaved calls that start with all N slots free at least
\* min(2, N) return True, and a call is rejected only if some sequential order
\* of the two calls rejects it too
RaceTowardsAdmission ==
    (\A p \in Procs : proc[p].done) =>
        /\ Cardinality({p \in Procs : proc[p].ret}) >= (IF settings.RATE_LIMIT_REQUESTS < 2 THEN settings.RATE_LIMIT_REQUESTS ELSE 2)
        /\ \A p \in Procs : ~proc[p].ret =>
            \E first \in Procs :
                /\ \A q \in Procs : proc[first].current_time <= proc[q].current_time
                /\ ~SequentialRet(p, first)

\* C25: is_allowed applies every max_requests and window_seconds the caller
\* supplies, 0 included, takes the configured defaults only for an omitted
\* argument, and so rejects every call made with max_requests = 0
ParametersHonoured ==
    \A i \in FaultIds, mr \in {NoArg} \cup 0..MaxQuota, ws \in {NoArg} \cup 0..MaxWindow :
        LET c == is_allowed(redis, i, mr, ws, now, 0)
        IN  /\ c.max_requests = (IF mr = NoArg THEN settings.RATE_LIMIT_REQUESTS ELSE mr)
            /\ c.window_seconds = (IF ws = NoArg THEN settings.RATE_LIMIT_WINDOW ELSE ws)
            /\ mr = 0 => ~c.ret

\* C29: on every reachable store and clock reading, with the defaults and a
\* healthy store, get_remaining_requests answers 0 exactly when is_allowed
\* would answer False, and a positive number exactly when it would answer True
QueriesAgree ==
    \A i \in FaultIds :
        LET g == get_remaining_requests(redis, i, now, 0)
            a == is_allowed(redis, i, NoArg, NoArg, now, 0)
        IN  /\ g.ret = 0 <=> ~a.ret
            /\ g.ret > 0 <=> a.ret

\* get_remaining_requests has just answered 0 on a set that holds more live
\* markers than the quota, and is_allowed would reject
WitnessQueriesAgree ==
    /\ rl.op = "get_remaining_requests" /\ ~rl.failed /\ rl.remaining = 0
    /\ zcard(redis, RateKey(rl.identifier)) > settings.RATE_LIMIT_REQUESTS
    /\ ~is_allowed(redis, rl.identifier, NoArg, NoArg, now, 0).ret

\* C30: a get_remaining_requests call in which a store operation failed
\* raised nothing and answered the whole configured quota
FailOpenRemaining ==
    (rl.op = "get_remaining_requests" /\ rl.failed) =>
        /\ ~rl.raised
        /\ rl.remaining = settings.RATE_LIMIT_REQUESTS

\* the count failed on a set that holds as many live markers as the quota: a
\* healthy call would have answered 0
WitnessFailOpenRemaining ==
    /\ rl.op = "get_remaining_requests" /\ rl.failed /\ rl.remaining = settings.RATE_LIMIT_REQUESTS
    /\ get_remaining_requests(redis, rl.identifier, now, 0).ret = 0

\* the part of the store under one key
Own(r, key) == [k \in DOMAIN r \cap {key} |-> r[k]]

\* C28: a limiter call for identifier A leaves every key but rate_limit:A as
\* it was (the other callers' marker sets and expiries, the cached analyses),
\* leaves every later answer to any other identifier B as it was, and gives
\* the answer it would give on a store that holds rate_limit:A alone
IdentifierIsolation ==
    [][(now' = now /\ cl' = cl /\ lastStore' = lastStore /\ vars' # vars) =>
        LET A == rl'.identifier
            keyA == "rate_limit:" \o A
        IN  /\ \A k \in (DOMAIN redis \cup DOMAIN redis') \ {keyA} : Entry(redis', k) = Entry(redis, k)
            /\ \A B \in Identifiers \ {A}, t \in now..MaxTime :
                /\ is_allowed(Purge(redis', t), B, NoArg, NoArg, t, 0).ret = is_allowed(Purge(redis, t), B, NoArg, NoArg, t, 0).ret
                /\ get_remaining_requests(Purge(redis', t), B, t, 0).ret = get_remaining_requests(Purge(redis, t), B, t, 0).ret
            /\ rl'.op = "is_allowed" =>
                \E f \in FailPoints : \E c \in {is_allowed(Own(redis, keyA), A, NoArg, NoArg, now, f)} :
                    c.ret = rl'.ret /\ c.failed = rl'.failed /\ Entry(c.redis, keyA) = Entry(redis', keyA)
            /\ rl'.op = "get_remaining_requests" =>
                \E f \in RemainingFailPoints : \E c \in {get_remaining_requests(Own(redis, keyA), A, now, f)} :
                    c.ret = rl'.remaining /\ c.failed = rl'.failed /\ Entry(c.redis, keyA) = Entry(redis', keyA)]_vars

\* the call for "x" admitted while "y" held an older marker and an analysis
\* was cached: all three keys are in the store
WitnessIdentifierIsolation ==
    /\ rl.op = "is_allowed" /\ rl.identifier = "x" /\ rl.ret /\ ~rl.failed
    /\ \E m \in Entry(redis, RateKey("x")).members : m.score = now
    /\ \E m \in Entry(redis, RateKey("y")).members : m.score < now
    /\ \E k \in DOMAIN redis : k \notin {RateKey(i) : i \in Identifiers} /\ redis[k].kind = "string"

(* ------------------------------ cache claims -------------------------- *)
\* C4: get_analysis_cache never raises; it returns None when the key is absent,
\* when the read fails and when the stored text does not validate, and returns
\* an analysis only when a live entry exists and deserializes
LookupFailOpen ==
    [][(cl'.op = "get" /\ now' = now) =>
        LET e == Entry(redis, cl'.key)
        IN  /\ ~cl'.raised
            /\ (cl'.fault \/ e.kind # "string") => cl'.ret = <<>>
            /\ (e.kind = "string" /\ ~loads_analysis(e.data[1]).ok) => cl'.ret = <<>>
            /\ cl'.ret # <<>> => (e.kind = "string" /\ loads_analysis(e.data[1]).ok /\ cl'.ret = <<loads_analysis(e.data[1]).value>>)]_vars

\* a lookup of a live entry whose text does not validate, with a healthy store
WitnessLookupFailOpen ==
    /\ cl.op = "get" /\ ~cl.fault /\ cl.ret = <<>>
    /\ Entry(redis, cl.key).kind = "string"
    /\ ~loads_analysis(Entry(redis, cl.key).data[1]).ok

\* C6: after one or more stores of a valid analysis A under a triple, a lookup
\* of that triple before the TTL elapses, with a healthy store, returns A
RoundTrip ==
    (/\ cl.op = "get" /\ ~cl.fault
     /\ cl.key \in DOMAIN lastStore
     /\ lastStore[cl.key].by = cl.triple
     /\ Valid(lastStore[cl.key].analysis))
        => cl.ret = <<lastStore[cl.key].analysis>>

\* the lookup returned the analysis with a similar incident and a fraction
WitnessRoundTrip ==
    /\ cl.op = "get" /\ cl.ret = <<AnalysisA>>
    /\ cl.key \in DOMAIN lastStore /\ lastStore[cl.key].by = cl.triple

\* C7: a lookup returns an entry only less than CACHE_TTL seconds after the
\* most recent store for its key, and only the passing of an entry's expiry
\* removes it from the store
ExpiryOnly ==
    [][/\ (cl'.op = "get" /\ now' = now /\ cl'.ret # <<>>) => cl'.key \in DOMAIN lastStore
       /\ \A k \in DOMAIN redis : (redis[k].kind = "string" /\ k \notin DOMAIN redis') => (now' = now + 1 /\ now' >= redis[k].expireAt)
       /\ \A k \in DOMAIN redis' : redis'[k].kind = "string" => (k \in DOMAIN lastStore' /\ redis'[k].expireAt = lastStore'[k].at + settings.CACHE_TTL)]_vars

\* an entry returned in the last second before its expiry, not the second it was stored
WitnessExpiryOnly ==
    /\ cl.op = "get" /\ cl.ret # <<>>
    /\ cl.key \in DOMAIN lastStore
    /\ now = lastStore[cl.key].at + settings.CACHE_TTL - 1
    /\ now > lastStore[cl.key].at

BestEffortStore ==
    /\ cl.op = "set" => (~cl.raised /\ (cl.failed => ~cl.changed))
    /\ resp.set_fault => (resp.status = 200 /\ resp.fresh # <<>> /\ resp.body = resp.fresh /\ ~resp.written)

\* a request that missed the cache, whose store write failed
WitnessBestEffortStore ==
    /\ resp.set_fault /\ resp.status = 200 /\ ~resp.hit
    /\ resp.key \notin DOMAIN redis

\* C14: a request that is_allowed rejects is answered 429 before anything
\* else happens: no cache lookup, no provider call, no cache store, and no key
\* but the caller's limiter key changes
GateFirst ==
    [][(now' = now /\ rl'.op = "is_allowed" /\ ~rl'.ret) =>
        /\ resp'.status = 429
        /\ ~resp'.looked /\ resp'.provider_calls = 0 /\ ~resp'.set_called
        /\ lastStore' = lastStore
        /\ \A k \in (DOMAIN redis \cup DOMAIN redis') \ {RateKey(rl'.identifier)} : Entry(redis', k) = Entry(redis, k)]_vars

\* a rejected request whose analysis sits in the cache
WitnessGateFirst ==
    /\ rl.op = "is_allowed" /\ ~rl.ret /\ resp.status = 429
    /\ \E k \in DOMAIN redis : redis[k].kind = "string"

\* C15: no failure of the store makes a request fail, and when every store
\* operation of a request fails the request passes the gate, calls the
\* provider exactly once and answers 200 with that analysis
CorrectWithoutStore ==
    /\ resp.status \in {0, 200, 429}
    /\ (rl.op = "is_allowed" /\ rl.failed) => (rl.ret /\ resp.status = 200 /\ resp.looked)
    /\ (rl.op = "is_allowed" /\ rl.failed /\ resp.get_fault /\ resp.set_fault) =>
        (resp.status = 200 /\ resp.provider_calls = 1 /\ resp.fresh # <<>> /\ resp.body = resp.fresh /\ ~resp.hit)

\* a request served while the limiter, the lookup and the store all failed,
\* the entry an earlier request cached still in the store
WitnessCorrectWithoutStore ==
    /\ rl.op = "is_allowed" /\ rl.failed /\ resp.get_fault /\ resp.set_fault
    /\ resp.status = 200 /\ resp.provider_calls = 1
    /\ resp.key \in DOMAIN redis

\* C22: a request whose lookup finds an analysis returns that analysis,
\* calls no provider and writes nothing to the cache
HitShortCircuits ==
    [][(now' = now /\ cl' = cl /\ vars' # vars /\ resp'.hit) =>
        /\ resp'.status = 200
        /\ Entry(redis, resp'.key).kind = "string"
        /\ resp'.body = <<loads_analysis(Entry(redis, resp'.key).data[1]).value>>
        /\ resp'.provider_calls = 0 /\ ~resp'.set_called
        /\ lastStore' = lastStore
        /\ \A k \in (DOMAIN redis \cup DOMAIN redis') \ {RateKey(rl'.identifier)} : Entry(redis', k) = Entry(redis, k)]_vars

\* a request served from the cache in the last second of the entry's life,
\* the entry left with the expiry it had
WitnessHitShortCircuits ==
    /\ resp.hit /\ resp.status = 200 /\ resp.provider_calls = 0
    /\ resp.key \in DOMAIN redis /\ resp.key \in DOMAIN lastStore
    /\ lastStore[resp.key].at < now
    /\ redis[resp.key].expireAt = now + 1

\* C23: when the provider call or the parsing of its response fails, the
\* fallback analysis is not written to the cache
OnlySuccessCached ==
    resp.outcome \in {"parse_error", "api_error"} => ~resp.written

\* C24: the analyze flow writes the cache only under a key that has no live
\* entry at the time of the write, also when requests run concurrently
EntriesReadOnly ==
    [][\A p \in Procs : (req[p].pc = "store" /\ req'[p].pc # "store") => FlowKey \notin DOMAIN redis]_vars

\* C10: a request with the triple of an earlier store addresses the key of
\* that store, whatever the clock reads, whatever incident id the request
\* generates and whatever the cache and the limiter did in between
KeyDeterminism ==
    resp.status \in {200, 500} => \A k \in DOMAIN lastStore : lastStore[k].by = resp.triple => resp.key = k

\* a request served from the entry an earlier request stored under another
\* incident id
WitnessKeyDeterminism ==
    /\ resp.status = 200 /\ resp.hit
    /\ resp.key \in DOMAIN lastStore /\ lastStore[resp.key].at < now
    /\ resp.body[1].incident_id # "REQ-" \o IntToStr(now)

(* ------------------------------ digest claims ------------------------- *)
RECURSIVE SameContent(_, _)
\* the same key-value pairs, whatever the insertion order of the mapping keys
SameContent(a, b) ==
    /\ a.t = b.t
    /\ a.s = b.s
    /\ Len(a.items) = Len(b.items)
    /\ IF a.t = "dict"
       THEN /\ {a.items[i].k : i \in DOMAIN a.items} = {b.items[j].k : j \in DOMAIN b.items}
            /\ \A i \in DOMAIN a.items, j \in DOMAIN b.items : a.items[i].k = b.items[j].k => SameContent(a.items[i].v, b.items[j].v)
       ELSE \A i \in DOMAIN a.items : SameContent(a.items[i].v, b.items[i].v)

\* C9: contents that differ only in the insertion order of mapping keys, at any
\* depth, have the same digest
DigestCanonical == (dg.done /\ SameContent(dg.c1, dg.c2)) => dg.h1 = dg.h2

\* two log lists whose entries agree but whose nested metadata dicts were
\* built in different key orders
WitnessDigestCanonical ==
    /\ dg.done /\ SameContent(dg.c1, dg.c2) /\ dg.h1 = dg.h2
    /\ dg.c1.t = "list" /\ dg.c1.items[1].v.items[1].k = "level" /\ dg.c2.items[1].v.items[1].k = "level"
    /\ dg.c1.items[1].v.items[2].v.t = "dict"
    /\ dg.c1.items[1].v.items[2].v.items[1].k # dg.c2.items[1].v.items[2].v.items[1].k

====
